---- MODULE Spec2Model ----
(***************************************************************************)
(* State-machine model of the RocksDB driver of UKV                        *)
(* (src/src/backend_rocksdb.cpp): the C ABI calls ukv_write, ukv_read,     *)
(* ukv_txn_begin and ukv_txn_commit over a rocksdb::TransactionDB.         *)
(*                                                                         *)
(* The engine is the pessimistic TransactionDB the driver opens            *)
(* (rocks_db_t = rocksdb::TransactionDB, default TransactionDBOptions):    *)
(*  - every write, transactional or not, takes the exclusive lock of its   *)
(*    key; a key locked by another transaction makes the write give up     *)
(*    with Status::TimedOut;                                               *)
(*  - a transaction begun with set_snapshot validates, on its first write  *)
(*    of a key, that the key was not written after its snapshot, and       *)
(*    otherwise refuses the write with Status::Busy;                       *)
(*  - Transaction::Get / MultiGet read the transaction's own write batch   *)
(*    first and the database at ReadOptions::snapshot otherwise, and take  *)
(*    no lock;                                                             *)
(*  - Transaction::Commit writes the batch atomically and releases the     *)
(*    locks.                                                               *)
(* One ABI call is one atomic step: a call that would wait for a lock is   *)
(* the same call taken after the lock was released, or a TimedOut.         *)
(***************************************************************************)
EXTENDS Integers, Sequences, FiniteSets, TLC

(***************************************************************************)
(* Bounds of the model.                                                    *)
(***************************************************************************)
\* number of keys
MaxKey == 2
\* column families are 1..MaxCol, 1 being the default one
MaxCol == 2
\* values are the byte strings <<>>, <<1>>, <<2,2>>, ... up to MaxVal bytes
MaxVal == 1
\* transaction handles 1..NumTxns
NumTxns == 2
\* tasks per call
MaxBatch == 3
\* the largest scan length of a scan task
MaxScan == 2
\* ukv_read and ukv_write calls per behaviour
MaxCalls == 3
\* shadowed Put records the engine keeps under the newest one
MaxShadow == 1
\* ukv_txn_begin calls per behaviour
MaxBegins == 2
\* the largest count of targets, and of sources, of a vertex
MaxDegree == 1

(***************************************************************************)
(* Program constants.                                                      *)
(***************************************************************************)
\* ukv_default_collection_k = NULL
ukv_default_collection_k == 0
\* ukv_val_len_missing_k = max of uint32 (0xFFFFFFFF), written as the same
\* 32 bits read as a signed integer: no length of a value equals it
ukv_val_len_missing_k == -1
\* the handle db->DefaultColumnFamily()
DefaultColumnFamily == 1
\* a NULL ukv_txn_t
NullTxn == 0
\* sizeof(ukv_key_t)
KeyWidth == 8
\* sizeof(ukv_val_len_t), a uint32_t
ValLenWidth == 4
\* sizeof(ukv_size_t), a uint64_t in the ukv.h this driver is built with
SizeWidth == 8

\* ukv_key_t values: 1, 256, 2, 512, ...: small keys and keys whose lowest
\* byte is 0, so that the order of their bytes is not always their order as
\* numbers
Keys == {IF i % 2 = 1 THEN (i + 1) \div 2 ELSE 256 * (i \div 2) : i \in 1..MaxKey}
Columns == 1..MaxCol
Txns == 1..NumTxns
\* the collection handles a caller passes: NULL or a named column family
TaskCols == {ukv_default_collection_k} \cup (Columns \ {DefaultColumnFamily})
Slots == Columns \X Keys
\* value_view_t contents: n bytes, each equal to n
Values == {[i \in 1..n |-> n] : n \in 0..MaxVal}

\* the payload of a write task: del is task.is_deleted(), a NULL value
\* pointer
Payloads == {p \in [del : BOOLEAN, val : Values] : p.del => p.val = <<>>}

\* the key arrays of a call: 1..MaxBatch keys in ascending order
KeyArrays == {ks \in UNION {[1..n -> Keys] : n \in 1..MaxBatch} :
                \A i \in 1..(Len(ks) - 1) : ks[i] < ks[i + 1]}

\* write_tasks_soa_t: one collection of cols and one payload for all the
\* keys (the strides of cols, vals, offs and lens are 0)
WriteTasksOf(cols) ==
    {[i \in 1..Len(ks) |-> [col |-> c, key |-> ks[i], del |-> p.del, val |-> p.val]] :
        c \in cols, ks \in KeyArrays, p \in Payloads}

\* read_tasks_soa_t: one collection of cols for all the keys
ReadTasksOf(cols) ==
    {[i \in 1..Len(ks) |-> [col |-> c, key |-> ks[i]]] : c \in cols, ks \in KeyArrays}

\* scan_tasks_soa_t: 1..MaxBatch tasks, one collection of cols, one
\* smallest key and one scan length for all of them (strides 0)
ScanTasksOf(cols) ==
    {[i \in 1..n |-> [col |-> c, min_key |-> k, length |-> l]] :
        n \in 1..MaxBatch, c \in cols, k \in Keys, l \in 0..MaxScan}

\* write_tasks_soa_t with a value of its own for every task: two tasks of
\* the default collection for one key
RepeatTasks ==
    {<<[col |-> ukv_default_collection_k, key |-> k, del |-> p1.del, val |-> p1.val],
       [col |-> ukv_default_collection_k, key |-> k, del |-> p2.del, val |-> p2.val]>> :
        k \in Keys, p1 \in Payloads, p2 \in Payloads}

\* the calls that pass no collections (c_cols = NULL): the default one
WriteTasks == WriteTasksOf({ukv_default_collection_k})
ReadTasks == ReadTasksOf({ukv_default_collection_k})

\* a handle resolved to the default column family whatever it names
DefaultColumnOnly(col) == DefaultColumnFamily

\* task.col ? task.col : db->DefaultColumnFamily()
ColumnOf(col) == IF col = ukv_default_collection_k THEN DefaultColumnFamily ELSE col

\* the names of the column families, by number: the first is
\* rocksdb::kDefaultColumnFamilyName
CFNames == <<"default", "a", "b", "c">>

\* ColumnFamilyHandle::GetName
NameOf(column) == CFNames[column]

\* a NULL ukv_str_view_t
NullName == "(null)"

\* the (column family, key) a task addresses
SlotOf(task) == <<ColumnOf(task.col), task.key>>

(***************************************************************************)
(* The engine.                                                             *)
(***************************************************************************)
\* rocksdb::DB::Get on a key's records: the newest live Put, or NotFound
EngineGet(records) ==
    IF records = <<>> THEN [status |-> "NotFound", value |-> <<>>]
    ELSE [status |-> "OK", value |-> records[Len(records)]]

\* the engine keeps at most MaxShadow shadowed Puts under the newest one
Capped(records) ==
    IF Len(records) > MaxShadow + 1
    THEN SubSeq(records, Len(records) - MaxShadow, Len(records))
    ELSE records

\* One record of a write batch applied to the live records of its key.
\* Put shadows the older records, Delete hides them all.  SingleDelete
\* removes the newest Put only; over a key that was Put more than once its
\* result is undefined by the engine: the key is gone, or (resurface) the
\* shadowed Put is visible again.
ApplyRecord(records, rec, resurface) ==
    CASE rec.type = "Put" -> Capped(Append(records, rec.value))
      [] rec.type = "Delete" -> <<>>
      [] rec.type = "SingleDelete" ->
            IF Len(records) > 1 /\ resurface
            THEN SubSeq(records, 1, Len(records) - 1)
            ELSE <<>>

\* a DB::Write that applies the first record of the batch only
ApplyFirstRecord(st, batch, i, resurface) ==
    IF i > Len(batch) THEN st
    ELSE [store |-> [st.store EXCEPT ![batch[i].slot] =
                        ApplyRecord(@, batch[i], resurface)],
          keySeq |-> [st.keySeq EXCEPT ![batch[i].slot] = st.seq + 1],
          seq |-> st.seq + 1]

RECURSIVE ApplyBatch(_, _, _, _)
\* rocksdb::DB::Write of a batch: records i..Len(batch) applied in order,
\* each with the next sequence number.  st = [store, keySeq, seq].
ApplyBatch(st, batch, i, resurface) ==
    IF i > Len(batch) THEN st
    ELSE LET rec == batch[i]
             s == rec.slot
         IN ApplyBatch([store |-> [st.store EXCEPT ![s] = ApplyRecord(@, rec, resurface)],
                        keySeq |-> [st.keySeq EXCEPT ![s] = st.seq + 1],
                        seq |-> st.seq + 1],
                       batch, i + 1, resurface)

\* the record a write task puts into a batch; single selects SingleDelete
\* (write_one) or Delete (write_many) for a deletion
RecordOf(task, single) ==
    [slot |-> SlotOf(task),
     type |-> IF task.del
              THEN (IF single THEN "SingleDelete" ELSE "Delete")
              ELSE "Put",
     value |-> task.val]

\* an export that reports every status as a failure
export_failure(status) == "Failure"

\* export_error: the message left in *c_error, "" standing for a null error
export_error(status) ==
    CASE status = "OK" -> ""
      [] status = "Corruption" -> "Failure: DB Corrpution"
      [] status = "IOError" -> "Failure: IO  Error"
      [] status = "InvalidArgument" -> "Failure: Invalid Argument"
      [] OTHER -> "Failure"


(***************************************************************************)
(* The graph bindings (src/include/ukv_graph.hpp).                         *)
(***************************************************************************)
\* neighborship_t: the ids are ukv_key_t
Neighborships == [neighbor_id : Keys, edge_id : Keys]

\* a default-constructed neighborship_t
NoShip == [neighbor_id |-> 0, edge_id |-> 0]

\* operator<(neighborship_t a, neighborship_t b)
operator_less(a, b) ==
    \/ a.neighbor_id < b.neighbor_id
    \/ (\/ a.neighbor_id = b.neighbor_id
        \/ a.edge_id < b.edge_id)

\* operator==(neighborship_t a, neighborship_t b)
operator_equal(a, b) ==
    a.neighbor_id = b.neighbor_id /\ a.edge_id < b.edge_id

\* The value of a vertex as value_view_t bytes, in words: the two degrees
\* (ukv_vertex_degree_t), then the neighborships, each its neighbor id and
\* its edge id.
ValueOf(d0, d1, ships) ==
    <<d0, d1>> \o [i \in 1..(2 * Len(ships)) |->
                     IF i % 2 = 1 THEN ships[(i + 1) \div 2].neighbor_id
                     ELSE ships[i \div 2].edge_id]

\* the values ukv_graph_gather_neighbors puts on the tape: no value, a value
\* shorter than the two degrees, or degrees[0] targets followed by
\* degrees[1] sources
GraphValues ==
    {<<>>, <<0>>}
    \cup UNION {{ValueOf(d0, d1, ships) : ships \in [1..(d0 + d1) -> Neighborships]} :
                  d0 \in 0..MaxDegree, d1 \in 0..MaxDegree}

\* ships[j - 1] of neighbors(): reinterpret_cast<neighborship_t const*>(degrees + 2)
ShipAt(bytes, j) == [neighbor_id |-> bytes[2 * j + 1], edge_id |-> bytes[2 * j + 2]]

\* neighbors(bytes, role): the range of neighborships of a role
neighbors(bytes, role) ==
    IF Len(bytes) < 2 THEN <<>>
    ELSE LET d0 == bytes[1]
             d1 == bytes[2]
         IN  CASE role = "ukv_vertex_source_k" -> [j \in 1..d0 |-> ShipAt(bytes, j)]
               [] role = "ukv_vertex_target_k" -> [j \in 1..d1 |-> ShipAt(bytes, d0 + j)]
               [] role = "ukv_vertex_role_any_k" -> [j \in 1..(d0 + d1) |-> ShipAt(bytes, j)]
               [] OTHER -> <<>>

\* neighborhood_t(center_vertex, bytes): center keeps its default member
\* initializer, the constructor does not assign it
neighborhood_t(center_vertex, bytes) ==
    [center |-> 0,
     targets |-> neighbors(bytes, "ukv_vertex_source_k"),
     sources |-> neighbors(bytes, "ukv_vertex_target_k")]

\* neighborhood_t::size
size(h) == Len(h.targets) + Len(h.sources)

\* neighborhood_t::outgoing_edges, the three strided ranges read out
outgoing_edges(h) ==
    [kind |-> "outgoing",
     source_ids |-> [i \in 1..Len(h.targets) |-> h.center],
     target_ids |-> [i \in 1..Len(h.targets) |-> h.targets[i].neighbor_id],
     edge_ids |-> [i \in 1..Len(h.targets) |-> h.targets[i].edge_id],
     size |-> size(h)]

\* neighborhood_t::incoming_edges, the three strided ranges read out
incoming_edges(h) ==
    [kind |-> "incoming",
     source_ids |-> [i \in 1..Len(h.sources) |-> h.sources[i].neighbor_id],
     target_ids |-> [i \in 1..Len(h.sources) |-> h.center],
     edge_ids |-> [i \in 1..Len(h.sources) |-> h.sources[i].edge_id],
     size |-> size(h)]

\* a default-constructed edges_soa_view_t
NoEdges == [kind |-> "none", source_ids |-> <<>>, target_ids |-> <<>>,
            edge_ids |-> <<>>, size |-> 0]

(***************************************************************************)
(* The state.                                                              *)
(***************************************************************************)
VARIABLES
    \* rocks_db_wrapper_t::db: per (column family, key) the live Put records,
    \* newest last
    store,
    \* the engine's sequence number of the latest write of each key
    keySeq,
    \* the engine's latest sequence number
    seq,
    \* per ukv_txn_t handle: "null", "started" or "committed"
    txnState,
    \* the sequence number of each transaction's snapshot
    snapSeq,
    \* what each transaction's snapshot shows for every key
    snapshot,
    \* each transaction's write batch: its buffered records, oldest first
    writeBatch,
    \* the engine's lock table: the transaction holding each key, or NullTxn
    locks,
    \* the last ABI call: its inputs and what it returned
    last,
    \* number of ukv_read and ukv_write calls made
    calls,
    \* bookkeeping of the callers, as the stress test logs it: per open
    \* transaction and key, the last task of a write call that returned a
    \* null error
    sent,
    \* the database rebuilt from the log: the logged tasks of the committed
    \* transactions applied one transaction at a time, in commit order
    replay,
    \* whether a non-transactional write was applied
    rawWrites,
    \* per key, what the caller of the latest applied write knows of it:
    \* "never" written, "put" of a value or "del" by a non-transactional
    \* ukv_write, or "other" (a commit)
    written,
    \* per open transaction: the keys it read after another transaction's
    \* commit had changed them
    readLate,
    \* per open transaction: the keys among those it then passed to ukv_write
    rewritten,
    \* per open transaction: the keys it wrote with transaction_dont_watch
    unwatched,
    \* per open transaction: the keys mutated by other transactions that
    \* committed after its begin
    foreign,
    \* number of ukv_txn_begin calls made
    begins,
    \* the byte order of a ukv_key_t in memory on this build, "little" or
    \* "big"; "any" until the first call whose result depends on it
    byteOrder,
    \* the handles passed to ukv_txn_free, which their callers use no more
    freed,
    \* rocks_db_wrapper_t::columns: the column family handles in the order
    \* they were pushed, each the family it addresses (0 for a nullptr) and
    \* whether the handle object is alive
    columns,
    \* the names of the column families of the database
    families,
    \* whether the engine's Get and MultiGet fail with an IO error
    getFails,
    \* the last comparison of two neighborship_t: the operands and what
    \* operator< (both ways) and operator== (both ways) returned
    cmp,
    \* the neighborhood_t the caller of graph_collection_t::neighbors holds
    hood,
    \* the edges_soa_view_t last taken of it, and its size()
    edges

vars == <<store, keySeq, seq, txnState, snapSeq, snapshot, writeBatch, locks,
          last, calls, sent, replay, rawWrites, written, readLate, rewritten,
          unwatched, foreign, begins, byteOrder, freed, columns, families, getFails,
          cmp, hood, edges>>

engineVars == <<store, keySeq, seq>>
txnVars == <<txnState, snapSeq, snapshot, writeBatch, locks>>
logVars == <<sent, replay, rawWrites, written, readLate, rewritten, unwatched, foreign>>
envVars == <<columns, families, getFails>>
graphVars == <<cmp, hood, edges>>

\* no task logged for a key
NoTask == [kind |-> "none", value |-> <<>>]

\* what a snapshot taken of the records shows
SnapshotOf(records) == [s \in Slots |-> EngineGet(records[s])]

\* the output parameters of the ABI calls
Outputs(op) ==
    CASE op = "write" -> {"error"}
      [] op = "read" -> {"found_lengths", "found_values", "error"}
      [] op = "scan" -> {"found_keys", "found_lengths", "error"}
      [] op = "txn_begin" -> {"txn", "error"}
      [] op = "txn_commit" -> {"error"}
      [] OTHER -> {}

\* an ABI call as recorded in last
Call(op, txn, tasks, opt, err, lens, bytes) ==
    [op |-> op, txn |-> txn, tasks |-> tasks, opt |-> opt,
     err |-> err, lens |-> lens, bytes |-> bytes]

\* the state after ukv_open of a database that holds the column families
\* and no entry: no transaction was begun
Init ==
    /\ store = [s \in Slots |-> <<>>]
    /\ keySeq = [s \in Slots |-> 0]
    /\ seq = 0
    /\ txnState = [t \in Txns |-> "null"]
    /\ snapSeq = [t \in Txns |-> 0]
    /\ snapshot = [t \in Txns |-> SnapshotOf([s \in Slots |-> <<>>])]
    /\ writeBatch = [t \in Txns |-> <<>>]
    /\ locks = [s \in Slots |-> NullTxn]
    /\ last = Call("open", NullTxn, <<>>, FALSE, "", <<>>, <<>>)
    /\ calls = 0
    /\ sent = [t \in Txns |-> [s \in Slots |-> NoTask]]
    /\ replay = SnapshotOf([s \in Slots |-> <<>>])
    /\ rawWrites = FALSE
    /\ written = [s \in Slots |-> [kind |-> "never", value |-> <<>>]]
    /\ readLate = [t \in Txns |-> {}]
    /\ rewritten = [t \in Txns |-> {}]
    /\ unwatched = [t \in Txns |-> {}]
    /\ foreign = [t \in Txns |-> {}]
    /\ begins = 0
    /\ byteOrder = "any"
    /\ freed = {}
    /\ columns = [c \in 1..MaxCol |-> [family |-> c, live |-> TRUE]]
    /\ families = {NameOf(c) : c \in Columns}
    /\ getFails = FALSE
    /\ cmp = [done |-> FALSE, a |-> NoShip, b |-> NoShip, ab |-> FALSE, ba |-> FALSE,
              eq |-> FALSE, qe |-> FALSE]
    /\ hood = [vertex |-> 0, bytes |-> <<>>, center |-> 0, targets |-> <<>>,
               sources |-> <<>>]
    /\ edges = NoEdges

(***************************************************************************)
(* Transactions of the engine.                                             *)
(***************************************************************************)
\* a lock table that keeps the locks of transaction t
KeepLocks(lk, t) == lk

\* the locks without those of transaction t (Transaction::Clear)
Unlocked(lk, t) == [s \in Slots |-> IF lk[s] = t THEN NullTxn ELSE lk[s]]

\* rocksdb::Transaction::Put / Delete / SingleDelete of transaction t on
\* st = [locks, batch]: lock the key, validate it against the snapshot,
\* buffer the record.  Returns the new locks and batch and the status.
TxnWrite(t, st, rec) ==
    LET owner == st.locks[rec.slot]
    IN  IF owner # NullTxn /\ owner # t
        THEN [locks |-> st.locks, batch |-> st.batch, status |-> "TimedOut"]
        ELSE IF owner = NullTxn /\ keySeq[rec.slot] > snapSeq[t]
        THEN [locks |-> st.locks, batch |-> st.batch, status |-> "Busy"]
        ELSE [locks |-> [st.locks EXCEPT ![rec.slot] = t],
              batch |-> Append(st.batch, rec),
              status |-> "OK"]

RECURSIVE LastRecord(_, _, _)
\* the newest record of the batch for a key among the first i, or none
LastRecord(batch, slot, i) ==
    IF i = 0 THEN [slot |-> slot, type |-> "None", value |-> <<>>]
    ELSE IF batch[i].slot = slot THEN batch[i]
    ELSE LastRecord(batch, slot, i - 1)

\* rocksdb::Transaction::Get with ReadOptions::snapshot = txn->GetSnapshot():
\* the transaction's own batch first, the snapshot otherwise
TxnGet(t, slot) ==
    LET rec == LastRecord(writeBatch[t], slot, Len(writeBatch[t]))
    IN  CASE rec.type = "None" -> snapshot[t][slot]
          [] rec.type = "Put" -> [status |-> "OK", value |-> rec.value]
          [] OTHER -> [status |-> "NotFound", value |-> <<>>]

\* txn ? txn->Get(...) : db->Get(...)
Get(t, slot) == IF t = NullTxn THEN EngineGet(store[slot]) ELSE TxnGet(t, slot)

(***************************************************************************)
(* ukv_write                                                               *)
(***************************************************************************)
\* the engine as one value
Engine == [store |-> store, keySeq |-> keySeq, seq |-> seq]

\* a DB::Write outside a transaction that applies the records in front of
\* the first locked key before it gives up
DbWritePartial(batch, resurface) ==
    LET locked == {i \in 1..Len(batch) : locks[batch[i].slot] # NullTxn}
        first == IF locked = {} THEN Len(batch) + 1
                 ELSE CHOOSE i \in locked : \A j \in locked : i <= j
    IN  [engine |-> ApplyBatch(Engine, SubSeq(batch, 1, first - 1), 1, resurface),
         status |-> IF locked = {} THEN "OK" ELSE "TimedOut"]

\* rocksdb::TransactionDB::Put / SingleDelete / Write outside a transaction:
\* an internal transaction locks every key of the batch and commits it;
\* a key locked by an open transaction fails the whole batch
DbWrite(batch, resurface) ==
    IF \E i \in 1..Len(batch) : locks[batch[i].slot] # NullTxn
    THEN [engine |-> Engine, status |-> "TimedOut"]
    ELSE [engine |-> ApplyBatch(Engine, batch, 1, resurface), status |-> "OK"]

\* a write_one whose transactional write also reaches the database
write_through(t, tasks, resurface) ==
    LET rec == RecordOf(tasks[1], TRUE)
    IN  IF t # NullTxn
        THEN LET r == TxnWrite(t, [locks |-> locks, batch |-> writeBatch[t]], rec)
             IN  [engine |-> IF r.status = "OK"
                             THEN ApplyBatch(Engine, <<rec>>, 1, resurface)
                             ELSE Engine,
                  locks |-> r.locks, batch |-> r.batch,
                  err |-> export_error(r.status)]
        ELSE LET r == DbWrite(<<rec>>, resurface)
             IN  [engine |-> r.engine, locks |-> locks, batch |-> <<>>,
                  err |-> export_error(r.status)]

\* write_one: the task count is 1
write_one(t, tasks, resurface) ==
    LET rec == RecordOf(tasks[1], TRUE)
    IN  IF t # NullTxn
        THEN LET r == TxnWrite(t, [locks |-> locks, batch |-> writeBatch[t]], rec)
             IN  [engine |-> Engine, locks |-> r.locks, batch |-> r.batch,
                  err |-> export_error(r.status)]
        ELSE LET r == DbWrite(<<rec>>, resurface)
             IN  [engine |-> r.engine, locks |-> locks, batch |-> <<>>,
                  err |-> export_error(r.status)]

RECURSIVE TxnWriteTasks(_, _, _, _)
\* the loop of write_many inside a transaction: tasks i..n are written one
\* by one and the status of each is dropped
TxnWriteTasks(t, st, tasks, i) ==
    IF i > Len(tasks) THEN st
    ELSE LET r == TxnWrite(t, st, RecordOf(tasks[i], FALSE))
         IN  TxnWriteTasks(t, [locks |-> r.locks, batch |-> r.batch], tasks, i + 1)

\* write_many: any other task count
write_many(t, tasks, resurface) ==
    IF t # NullTxn
    THEN LET r == TxnWriteTasks(t, [locks |-> locks, batch |-> writeBatch[t]], tasks, 1)
         IN  [engine |-> Engine, locks |-> r.locks, batch |-> r.batch, err |-> ""]
    ELSE LET batch == [i \in 1..Len(tasks) |-> RecordOf(tasks[i], FALSE)]
             r == DbWrite(batch, resurface)
         IN  [engine |-> r.engine, locks |-> locks, batch |-> <<>>,
              err |-> export_error(r.status)]

\* the keys of a task array
SlotsOf(tasks) == {SlotOf(tasks[i]) : i \in 1..Len(tasks)}

RECURSIVE LogTasks(_, _, _)
\* the caller's log of one transaction after a write call that returned no
\* error: per key the last task
LogTasks(log, tasks, i) ==
    IF i > Len(tasks) THEN log
    ELSE LogTasks([log EXCEPT ![SlotOf(tasks[i])] =
                      [kind |-> IF tasks[i].del THEN "del" ELSE "put",
                       value |-> tasks[i].val]],
                  tasks, i + 1)

RECURSIVE NoteTasks(_, _, _)
\* the caller's note of an applied non-transactional write: per key the
\* value put, or the deletion
NoteTasks(note, tasks, i) ==
    IF i > Len(tasks) THEN note
    ELSE NoteTasks([note EXCEPT ![SlotOf(tasks[i])] =
                       IF tasks[i].del THEN [kind |-> "del", value |-> <<>>]
                       ELSE [kind |-> "put", value |-> tasks[i].val]],
                   tasks, i + 1)

\* ukv_write(db, txn, tasks_count, cols, keys, vals, offs, lens, options):
\* dontWatch is ukv_option_transaction_dont_watch_k in c_options, which the
\* driver does not look at
ukv_write(t, tasks, dontWatch) ==
    /\ calls < MaxCalls
    /\ t # NullTxn => txnState[t] = "started"
    /\ \E resurface \in BOOLEAN :
         LET r == IF Len(tasks) = 1 THEN write_one(t, tasks, resurface)
                  ELSE write_many(t, tasks, resurface)
         IN  /\ store' = r.engine.store
             /\ keySeq' = r.engine.keySeq
             /\ seq' = r.engine.seq
             /\ locks' = r.locks
             /\ writeBatch' = IF t = NullTxn THEN writeBatch
                              ELSE [writeBatch EXCEPT ![t] = r.batch]
             /\ last' = Call("write", t, tasks, dontWatch, r.err, <<>>, <<>>)
             /\ sent' = IF t # NullTxn /\ r.err = ""
                        THEN [sent EXCEPT ![t] = LogTasks(@, tasks, 1)]
                        ELSE sent
             /\ rewritten' = IF t # NullTxn
                             THEN [rewritten EXCEPT ![t] =
                                      @ \cup (SlotsOf(tasks) \cap readLate[t])]
                             ELSE rewritten
             /\ unwatched' = IF t # NullTxn /\ r.err = "" /\ dontWatch
                             THEN [unwatched EXCEPT ![t] = @ \cup SlotsOf(tasks)]
                             ELSE unwatched
             /\ rawWrites' = (rawWrites \/ (t = NullTxn /\ r.err = ""))
             /\ written' = IF t = NullTxn /\ r.err = ""
                           THEN NoteTasks(written, tasks, 1)
                           ELSE written
    /\ calls' = calls + 1
    /\ UNCHANGED <<txnState, snapSeq, snapshot, replay, readLate, foreign, begins,
                   byteOrder, freed, envVars, graphVars>>

(***************************************************************************)
(* ukv_read                                                                *)
(***************************************************************************)
RECURSIVE Concat(_, _)
\* the values i..n of a sequence of byte strings, one after the other
Concat(vals, i) == IF i > Len(vals) THEN <<>> ELSE vals[i] \o Concat(vals, i + 1)

\* the answer of a Get or of one key of a MultiGet: got, or an IO error
\* that leaves the value empty
Fallible(got) == IF getFails THEN [status |-> "IOError", value |-> <<>>] ELSE got

\* read_one: the exported length and the bytes put on the tape; offset is
\* *c_found_values - *c_found_lengths in bytes
read_one(t, tasks) ==
    LET got == Fallible(Get(t, SlotOf(tasks[1])))
    IN  IF got.status \notin {"OK", "NotFound"}
        THEN [err |-> export_error(got.status), lens |-> <<>>, bytes |-> <<>>,
              offset |-> 0]
        ELSE [err |-> "",
              lens |-> <<IF got.status = "NotFound" THEN ukv_val_len_missing_k
                         ELSE Len(got.value)>>,
              bytes |-> got.value,
              offset |-> SizeWidth]

\* read_many: MultiGet fills vals, the statuses are not looked at; an empty
\* string is exported as a missing value
read_many(t, tasks) ==
    LET vals == [i \in 1..Len(tasks) |-> Fallible(Get(t, SlotOf(tasks[i]))).value]
    IN  [err |-> "",
         lens |-> [i \in 1..Len(tasks) |->
                     IF Len(vals[i]) # 0 THEN Len(vals[i]) ELSE ukv_val_len_missing_k],
         bytes |-> Concat(vals, 1),
         offset |-> ValLenWidth * Len(tasks)]

\* a driver that serves every read
RefusesNothing(t, transparent) == FALSE

\* c_txn && !(c_options & ukv_option_read_transparent_k): the reads this
\* driver refuses
Refused(t, transparent) == t # NullTxn /\ ~transparent

\* ukv_read(db, txn, tasks_count, cols, keys, options): transparent is
\* ukv_option_read_transparent_k in c_options
ukv_read(t, tasks, transparent) ==
    /\ calls < MaxCalls
    /\ t # NullTxn => txnState[t] = "started"
    /\ LET refused == Refused(t, transparent)
           r == IF refused
                THEN [err |-> "RocksDB only supports transparent reads!",
                      lens |-> <<>>, bytes |-> <<>>]
                ELSE IF Len(tasks) = 1 THEN read_one(t, tasks)
                ELSE read_many(t, tasks)
           call == Call("read", t, tasks, transparent, r.err, r.lens, r.bytes)
       IN  /\ last' = IF refused THEN call ELSE [offset |-> r.offset] @@ call
           /\ readLate' = IF t # NullTxn /\ ~refused
                          THEN [readLate EXCEPT ![t] =
                                   @ \cup (SlotsOf(tasks) \cap foreign[t])]
                          ELSE readLate
    /\ calls' = calls + 1
    /\ UNCHANGED <<engineVars, txnVars, sent, replay, rawWrites, written, rewritten,
                   unwatched, foreign, begins, byteOrder, freed, envVars, graphVars>>

(***************************************************************************)
(* ukv_scan                                                                *)
(***************************************************************************)
RECURSIVE ShiftRight(_, _)
\* key >> (8 * n)
ShiftRight(key, n) == IF n = 0 THEN key ELSE ShiftRight(key \div 256, n - 1)

\* to_slice(ukv_key_t): the KeyWidth bytes of the key as they lie in memory
to_slice(key, order) ==
    [i \in 1..KeyWidth |->
        IF order = "little" THEN ShiftRight(key, i - 1) % 256
        ELSE ShiftRight(key, KeyWidth - i) % 256]

RECURSIVE KeyOfBytes(_, _, _)
\* memcpy of a slice into a ukv_key_t: the number its n highest bytes make
KeyOfBytes(slice, order, n) ==
    IF n = 0 THEN 0
    ELSE KeyOfBytes(slice, order, n - 1) * 256
         + slice[IF order = "little" THEN KeyWidth - n + 1 ELSE n]

\* rocksdb::BytewiseComparator: the order of the column families' keys
BytewiseLess(a, b) ==
    \E i \in 1..KeyWidth : a[i] < b[i] /\ \A j \in 1..(i - 1) : a[j] = b[j]

\* what an iterator shows of a key: txn->GetIterator merges the
\* transaction's write batch over the database, db->NewIterator reads the
\* database; ReadOptions::snapshot is not set
IteratorGet(t, slot) ==
    LET rec == IF t = NullTxn THEN [type |-> "None"]
               ELSE LastRecord(writeBatch[t], slot, Len(writeBatch[t]))
    IN  CASE rec.type = "None" -> EngineGet(store[slot])
          [] rec.type = "Put" -> [status |-> "OK", value |-> rec.value]
          [] OTHER -> [status |-> "NotFound", value |-> <<>>]

\* the keys an iterator of a column family holds, as slices
IteratorKeys(t, column, order) ==
    {to_slice(k, order) : k \in {x \in Keys : IteratorGet(t, <<column, x>>).status = "OK"}}

RECURSIVE Sorted(_)
\* the slices in the comparator's order
Sorted(slices) ==
    IF slices = {} THEN <<>>
    ELSE LET m == CHOOSE x \in slices : \A y \in slices \ {x} : BytewiseLess(x, y)
         IN  <<m>> \o Sorted(slices \ {m})

\* it->Seek(target) and the it->Next() after it: the slices not below the
\* target, in order
Seek(slices, target) == Sorted({x \in slices : ~BytewiseLess(x, target)})

\* the smaller of two numbers
Min(a, b) == IF a < b THEN a ELSE b

RECURSIVE ScanLoop(_, _, _, _, _)
\* The loop of ukv_scan from task index i (counted from 0) on.  The one
\* variable i is the index of the task, the index of the next tape entry
\* and the count compared with task.length.  The tape has room for
\* Len(tasks) entries.  Returns the entries copied to the tape and how the
\* loop left its arrays: "none", "tape" (an entry beyond the tape was
\* written) or "tasks" (the loop went on to a task index beyond the count).
ScanLoop(t, tasks, i, entries, order) ==
    LET n == Len(tasks)
    IN  IF i = n THEN [entries |-> entries, overrun |-> "none"]
        ELSE IF i > n THEN [entries |-> entries, overrun |-> "tasks"]
        ELSE LET task == tasks[i + 1]
                 column == ColumnOf(task.col)
                 found == Seek(IteratorKeys(t, column, order), to_slice(task.min_key, order))
                 m == IF task.length >= i THEN Min(Len(found), task.length - i)
                      ELSE Len(found)
                 new == [j \in 1..Min(m, n - i) |->
                           LET key == KeyOfBytes(found[j], order, KeyWidth)
                           IN  [slot |-> i + j - 1, task |-> i, key |-> key,
                                len |-> Len(IteratorGet(t, <<column, key>>).value)]]
             IN  IF m > n - i
                 THEN [entries |-> entries \o new, overrun |-> "tape"]
                 ELSE ScanLoop(t, tasks, i + m + 1, entries \o new, order)

RECURSIVE ScanVisits(_, _, _, _)
\* the values the counter i of the loop of ukv_scan has when tasks[i] is
\* read, from i on, up to the first one beyond the task count or the first
\* task that writes beyond the tape
ScanVisits(t, tasks, i, order) ==
    LET n == Len(tasks)
    IN  IF i = n THEN <<>>
        ELSE IF i > n THEN <<i>>
        ELSE LET task == tasks[i + 1]
                 found == Seek(IteratorKeys(t, ColumnOf(task.col), order),
                               to_slice(task.min_key, order))
                 m == IF task.length >= i THEN Min(Len(found), task.length - i)
                      ELSE Len(found)
             IN  IF m > n - i THEN <<i>>
                 ELSE <<i>> \o ScanVisits(t, tasks, i + m + 1, order)

\* ukv_scan(db, txn, tasks_count, cols, min_keys, scan_lengths, options):
\* transparent is ukv_option_read_transparent_k in c_options
ukv_scan(t, tasks, transparent) ==
    /\ calls < MaxCalls
    /\ t # NullTxn => txnState[t] = "started"
    /\ IF Refused(t, transparent)
       THEN /\ last' = Call("scan", t, tasks, transparent,
                            "RocksDB only supports transparent reads!", <<>>, <<>>)
            /\ UNCHANGED byteOrder
       ELSE \E order \in {"little", "big"} :
               /\ byteOrder \in {"any", order}
               /\ byteOrder' = order
               /\ LET r == ScanLoop(t, tasks, 0, <<>>, order)
                  IN  last' = [entries |-> r.entries, overrun |-> r.overrun,
                               visited |-> ScanVisits(t, tasks, 0, order)]
                              @@ Call("scan", t, tasks, transparent, "", <<>>, <<>>)
    /\ calls' = calls + 1
    /\ UNCHANGED <<engineVars, txnVars, logVars, begins, freed, envVars, graphVars>>

(***************************************************************************)
(* ukv_txn_begin, ukv_txn_commit                                           *)
(***************************************************************************)
\* ukv_txn_begin(db, &txn): BeginTransaction with set_snapshot, reusing the
\* transaction object the handle already holds (which rolls it back)
ukv_txn_begin(t) ==
    /\ begins < MaxBegins
    /\ begins' = begins + 1
    /\ txnState' = [txnState EXCEPT ![t] = "started"]
    /\ snapSeq' = [snapSeq EXCEPT ![t] = seq]
    /\ snapshot' = [snapshot EXCEPT ![t] = SnapshotOf(store)]
    /\ writeBatch' = [writeBatch EXCEPT ![t] = <<>>]
    /\ locks' = Unlocked(locks, t)
    /\ last' = Call("txn_begin", t, writeBatch[t], FALSE, "", <<>>, <<>>)
    /\ sent' = [sent EXCEPT ![t] = [s \in Slots |-> NoTask]]
    /\ readLate' = [readLate EXCEPT ![t] = {}]
    /\ rewritten' = [rewritten EXCEPT ![t] = {}]
    /\ unwatched' = [unwatched EXCEPT ![t] = {}]
    /\ foreign' = [foreign EXCEPT ![t] = {}]
    /\ UNCHANGED <<engineVars, replay, rawWrites, written, calls, byteOrder, freed, envVars, graphVars>>

\* the log replayed: the logged tasks of one transaction applied to a
\* database
Replayed(db, log) ==
    [s \in Slots |->
        CASE log[s].kind = "put" -> [status |-> "OK", value |-> log[s].value]
          [] log[s].kind = "del" -> [status |-> "NotFound", value |-> <<>>]
          [] OTHER -> db[s]]

\* the keys of the records of a batch
BatchSlots(batch) == {batch[i].slot : i \in 1..Len(batch)}

\* ukv_txn_commit(txn): Transaction::Commit writes the batch in one
\* DB::Write and releases the locks; error as exported from its status
ukv_txn_commit(t) ==
    /\ txnState[t] = "started"
    /\ \E resurface \in BOOLEAN :
         LET e == ApplyBatch(Engine, writeBatch[t], 1, resurface)
         IN  /\ store' = e.store
             /\ keySeq' = e.keySeq
             /\ seq' = e.seq
    /\ txnState' = [txnState EXCEPT ![t] = "committed"]
    /\ writeBatch' = [writeBatch EXCEPT ![t] = <<>>]
    /\ locks' = Unlocked(locks, t)
    /\ last' = Call("txn_commit", t, writeBatch[t], FALSE, export_error("OK"), <<>>, <<>>)
    /\ replay' = Replayed(replay, sent[t])
    /\ written' = [s \in Slots |->
                     IF s \in BatchSlots(writeBatch[t])
                     THEN [kind |-> "other", value |-> <<>>]
                     ELSE written[s]]
    /\ foreign' = [u \in Txns |->
                     IF u # t /\ txnState[u] = "started"
                     THEN foreign[u] \cup BatchSlots(writeBatch[t])
                     ELSE foreign[u]]
    /\ UNCHANGED <<snapSeq, snapshot, sent, rawWrites, readLate, rewritten, unwatched, calls,
                   begins, byteOrder, freed, envVars, graphVars>>

\* ukv_txn_free(db, txn): the body is empty, the transaction object and
\* what it holds stay as they are; the caller drops the handle
ukv_txn_free(t) ==
    /\ txnState[t] # "null"
    /\ t \notin freed
    /\ freed' = freed \cup {t}
    /\ last' = Call("txn_free", t, writeBatch[t], FALSE, "", <<>>, <<>>)
    /\ UNCHANGED <<engineVars, txnVars, logVars, calls, begins, byteOrder, envVars, graphVars>>

\* the storage under the engine starts to fail: from now on Get and
\* MultiGet return an IO error
GetFails ==
    /\ ~getFails
    /\ getFails' = TRUE
    /\ last' = Call("fault", NullTxn, <<>>, FALSE, "", <<>>, <<>>)
    /\ UNCHANGED <<engineVars, txnVars, logVars, calls, begins, byteOrder, freed,
                   columns, families, graphVars>>

RECURSIVE Ascending(_)
\* the numbers of a set in ascending order
Ascending(S) ==
    IF S = {} THEN <<>>
    ELSE LET least == CHOOSE x \in S : \A y \in S : x <= y
         IN  <<least>> \o Ascending(S \ {least})

(***************************************************************************)
(* ukv_free, ukv_open                                                      *)
(***************************************************************************)
\* whether the database is open: ukv_free was not the last call
Opened == last.op # "free"

\* ukv_free(db): the wrapper is deleted, and with it the engine, which
\* closes the database; what was committed is in its files.  The column
\* family handles of the registry are not destroyed before the engine is
\* deleted, which the engine forbids: the call ends the process (crash) or
\* returns.  The transactions and handles of the callers end with the
\* database.
ukv_free ==
    /\ Opened
    /\ \E crash \in BOOLEAN :
          last' = [ub |-> IF crash THEN "crash" ELSE "none"]
                      @@ Call("free", NullTxn, <<>>, FALSE, "", <<>>, <<>>)
    /\ columns' = <<>>
    /\ txnState' = [t \in Txns |-> "null"]
    /\ snapSeq' = [t \in Txns |-> 0]
    /\ snapshot' = [t \in Txns |-> SnapshotOf([s \in Slots |-> <<>>])]
    /\ writeBatch' = [t \in Txns |-> <<>>]
    /\ locks' = [s \in Slots |-> NullTxn]
    /\ sent' = [t \in Txns |-> [s \in Slots |-> NoTask]]
    /\ readLate' = [t \in Txns |-> {}]
    /\ rewritten' = [t \in Txns |-> {}]
    /\ unwatched' = [t \in Txns |-> {}]
    /\ foreign' = [t \in Txns |-> {}]
    /\ freed' = {}
    /\ UNCHANGED <<engineVars, replay, rawWrites, written, calls, begins, byteOrder,
                   families, getFails, graphVars>>

\* a load of the options that finds the default column family only
DefaultDescriptorOnly(names) == {DefaultColumnFamily}

\* rocksdb::LoadLatestOptions: the descriptors of the column families the
\* database holds, by number
LoadLatestOptions(names) == {c \in 1..Len(CFNames) : CFNames[c] \in names}

\* ukv_open(config, &db) of the database that was freed: the column
\* families of the latest options are opened, their handles fill the
\* registry in the order of their descriptors
ukv_open ==
    /\ ~Opened
    /\ LET column_descriptors == Ascending(LoadLatestOptions(families))
       IN  columns' = [i \in 1..Len(column_descriptors) |->
                         [family |-> column_descriptors[i], live |-> TRUE]]
    /\ last' = Call("open", NullTxn, <<>>, FALSE, "", <<>>, <<>>)
    /\ UNCHANGED <<engineVars, txnVars, logVars, calls, begins, byteOrder, freed,
                   families, getFails, graphVars>>

(***************************************************************************)
(* ukv_collection_open, ukv_collection_remove                              *)
(***************************************************************************)
\* a collection call as recorded in last: the name passed, *c_col after the
\* call (set tells whether the call stored a handle) and whether the call
\* ran into undefined behaviour
CollectionCall(op, name, err, set, handle, ub) ==
    [name |-> name, col |-> [set |-> set, handle |-> handle], ub |-> ub]
        @@ Call(op, NullTxn, <<>>, FALSE, err, <<>>, <<>>)

\* whether the process is running: a call that crashed it was the last one
Running == "ub" \in DOMAIN last => last.ub # "crash"

\* the handles of the registry that are not nullptr and whose object was
\* destroyed: calling GetName on one of them is undefined
Dangling == {i \in 1..Len(columns) : columns[i].family # 0 /\ ~columns[i].live}

\* the handles of the registry that are nullptr
NullHandles == {i \in 1..Len(columns) : columns[i].family = 0}

\* the positions of the registry whose handle reports the name; stale tells
\* whether a destroyed handle still reports the name it had
Named(name, stale) ==
    {i \in 1..Len(columns) :
        /\ columns[i].family # 0
        /\ columns[i].live \/ stale
        /\ NameOf(columns[i].family) = name}

\* CreateColumnFamily(name): the outcomes the engine can answer with
CreateStatuses(name) ==
    IF name \in families THEN {"InvalidArgument"}
    ELSE IF name = "" THEN {"OK", "InvalidArgument"}
    ELSE {"OK"}

\* ukv_collection_open(db, name, config): a null name gives the default
\* column family; a name found in the registry gives its handle; otherwise
\* the column family is created, and its handle is pushed and returned when
\* export_error reports a failure
ukv_collection_open(name) ==
    /\ calls < MaxCalls
    /\ calls' = calls + 1
    /\ IF name = NullName
       THEN /\ last' = CollectionCall("collection_open", name, "", TRUE,
                                      DefaultColumnFamily, "none")
            /\ UNCHANGED <<columns, families>>
       ELSE \E stale \in BOOLEAN :
               LET ub == IF Dangling # {} THEN "dangling handle" ELSE "none"
                   found == Named(name, stale)
               IN  /\ stale => Dangling # {}
                   /\ IF found # {}
                      THEN /\ last' = CollectionCall("collection_open", name, "", TRUE,
                                         columns[CHOOSE i \in found :
                                                    \A k \in found : i <= k].family,
                                         ub)
                           /\ UNCHANGED <<columns, families>>
                      ELSE \E status \in CreateStatuses(name) :
                              IF export_error(status) # ""
                              THEN /\ columns' = Append(columns,
                                                        [family |-> 0, live |-> FALSE])
                                   /\ last' = CollectionCall("collection_open", name,
                                                 export_error(status), TRUE, 0, ub)
                                   /\ UNCHANGED families
                              ELSE /\ families' = families \cup {name}
                                   /\ last' = CollectionCall("collection_open", name, "",
                                                             FALSE, 0, ub)
                                   /\ UNCHANGED columns
    /\ UNCHANGED <<engineVars, txnVars, logVars, begins, byteOrder, freed, getFails,
                   graphVars>>

\* ukv_collection_remove(db, name): every handle of the registry whose name
\* equals the name is destroyed with DestroyColumnFamilyHandle; the handle
\* stays in the registry and the column family in the database. Comparing
\* with a NULL name, and calling GetName on a nullptr or on a destroyed
\* handle, is undefined: the call crashes the process, or goes on
ukv_collection_remove(name) ==
    /\ calls < MaxCalls
    /\ calls' = calls + 1
    /\ \E crash \in BOOLEAN, stale \in BOOLEAN :
          LET ub == IF name = NullName THEN "null name"
                    ELSE IF NullHandles # {} THEN "null handle"
                    ELSE IF Dangling # {} THEN "dangling handle"
                    ELSE "none"
              found == IF name = NullName THEN {} ELSE Named(name, stale)
          IN  /\ crash => ub # "none"
              /\ stale => (Dangling # {} /\ ~crash)
              /\ IF crash
                 THEN /\ last' = CollectionCall("collection_remove", name, "", FALSE, 0,
                                                "crash")
                      /\ UNCHANGED columns
                 ELSE /\ columns' = [i \in 1..Len(columns) |->
                                       IF i \in found
                                       THEN [columns[i] EXCEPT !.live = FALSE]
                                       ELSE columns[i]]
                      /\ last' = CollectionCall("collection_remove", name, "", FALSE, 0,
                                                ub)
    /\ UNCHANGED <<engineVars, txnVars, logVars, begins, byteOrder, freed, families,
                   getFails, graphVars>>

\* the handles are taken into use in order: a caller begins on a handle it
\* holds already or on the first NULL one
FirstUnused(t) == IF t = 1 THEN TRUE ELSE txnState[t - 1] # "null"

Next ==
    \/ \E t \in Txns \cup {NullTxn}, tasks \in WriteTasks : ukv_write(t, tasks, FALSE)
    \/ \E tasks \in ReadTasks : ukv_read(NullTxn, tasks, FALSE)
    \/ \E t \in Txns, tasks \in ReadTasks, transparent \in BOOLEAN :
          ukv_read(t, tasks, transparent)
    \/ \E t \in Txns : FirstUnused(t) /\ ukv_txn_begin(t)
    \/ \E t \in Txns : ukv_txn_commit(t)

Spec == Init /\ [][Next]_vars

\* the calls of callers that pass ukv_option_transaction_dont_watch_k to
\* their transactional writes
NextDontWatch ==
    \/ \E t \in Txns, tasks \in WriteTasks, dontWatch \in BOOLEAN :
          Len(tasks) = 1 /\ ukv_write(t, tasks, dontWatch)
    \/ \E t \in Txns, tasks \in ReadTasks :
          Len(tasks) = 1 /\ ukv_read(t, tasks, TRUE)
    \/ \E t \in Txns : FirstUnused(t) /\ ukv_txn_begin(t)
    \/ \E t \in Txns : ukv_txn_commit(t)

SpecDontWatch == Init /\ [][NextDontWatch]_vars

\* the calls of callers that use the named collections and scan them, with
\* one transaction begun once
NextScan ==
    \/ \E tasks \in WriteTasksOf(TaskCols) : Len(tasks) = 1 /\ ukv_write(NullTxn, tasks, FALSE)
    \/ \E tasks \in WriteTasks : Len(tasks) = 1 /\ ukv_write(1, tasks, FALSE)
    \/ \E t \in {1, NullTxn}, tasks \in ScanTasksOf({ukv_default_collection_k}), transparent \in BOOLEAN :
          (t = NullTxn => ~transparent) /\ ukv_scan(t, tasks, transparent)
    \/ \E tasks \in ReadTasks : Len(tasks) = 1 /\ ukv_read(1, tasks, FALSE)
    \/ txnState[1] = "null" /\ ukv_txn_begin(1)
    \/ ukv_txn_commit(1)

SpecScan == Init /\ [][NextScan]_vars

\* the calls of the stress test's threads: transactions of single-task
\* writes that are committed, and handles freed; a freed handle is not
\* passed to a call again
NextStress ==
    \/ \E t \in Txns \ freed, tasks \in WriteTasks :
          Len(tasks) = 1 /\ ukv_write(t, tasks, FALSE)
    \/ \E t \in Txns \ freed : FirstUnused(t) /\ ukv_txn_begin(t)
    \/ \E t \in Txns \ freed : ukv_txn_commit(t)
    \/ \E t \in Txns : ukv_txn_free(t)

SpecStress == Init /\ [][NextStress]_vars

\* whether a collection handle of a task can be used: NULL, or a handle of
\* the registry that is alive
Usable(col) ==
    \/ col = ukv_default_collection_k
    \/ \E i \in 1..Len(columns) : columns[i].family = col /\ columns[i].live

\* the calls of callers that open and remove collections between their
\* reads and writes, and pass no handle of a removed collection
NextCollections ==
    \/ \E name \in {NullName, "", NameOf(MaxCol), NameOf(MaxCol + 1)} :
          Running /\ ukv_collection_open(name)
    \/ \E name \in {NullName, NameOf(MaxCol), NameOf(MaxCol + 1)} :
          Running /\ ukv_collection_remove(name)
    \/ \E tasks \in WriteTasksOf(TaskCols) :
          /\ Running
          /\ Len(tasks) = 1
          /\ Usable(tasks[1].col)
          /\ ukv_write(NullTxn, tasks, FALSE)
    \/ \E tasks \in ReadTasksOf(TaskCols) :
          /\ Running
          /\ Len(tasks) = 1
          /\ Usable(tasks[1].col)
          /\ ukv_read(NullTxn, tasks, FALSE)

SpecCollections == Init /\ [][NextCollections]_vars

\* the calls of callers that write, commit and open collections, free the
\* database, open it again and read
NextReopen ==
    \/ \E name \in {NullName, NameOf(MaxCol), NameOf(MaxCol + 1)} :
          Opened /\ ukv_collection_open(name)
    \/ \E tasks \in WriteTasksOf(TaskCols) :
          /\ Opened
          /\ Len(tasks) = 1
          /\ Usable(tasks[1].col)
          /\ ukv_write(NullTxn, tasks, FALSE)
    \/ \E tasks \in WriteTasks : Opened /\ Len(tasks) = 1 /\ ukv_write(1, tasks, FALSE)
    \/ \E tasks \in ReadTasksOf(TaskCols) :
          /\ Opened
          /\ Len(tasks) = 1
          /\ Usable(tasks[1].col)
          /\ ukv_read(NullTxn, tasks, FALSE)
    \/ Opened /\ txnState[1] = "null" /\ ukv_txn_begin(1)
    \/ Opened /\ ukv_txn_commit(1)
    \/ ukv_free
    \/ ukv_open

SpecReopen == Init /\ [][NextReopen]_vars

\* the calls of callers whose batches name a key more than once, outside
\* a transaction and inside one that is begun once
NextRepeats ==
    \/ \E t \in {1, NullTxn}, tasks \in RepeatTasks : ukv_write(t, tasks, FALSE)
    \/ \E tasks \in WriteTasks : Len(tasks) = 1 /\ ukv_write(NullTxn, tasks, FALSE)
    \/ txnState[1] = "null" /\ ukv_txn_begin(1)
    \/ ukv_txn_commit(1)

SpecRepeats == Init /\ [][NextRepeats]_vars

\* the calls of callers that read and write outside transactions while the
\* storage can start to fail
NextFaults ==
    \/ \E tasks \in WriteTasks : Len(tasks) = 1 /\ ukv_write(NullTxn, tasks, FALSE)
    \/ \E tasks \in ReadTasks : ukv_read(NullTxn, tasks, FALSE)
    \/ GetFails

SpecFaults == Init /\ [][NextFaults]_vars

(***************************************************************************)
(* The graph bindings: comparisons and neighborhoods.                      *)
(***************************************************************************)
\* everything the graph bindings leave alone
dbVars == <<engineVars, txnVars, logVars, last, calls, begins, byteOrder, freed, envVars>>

\* a caller compares two neighborships with operator< and operator==, as
\* the sorting and searching of a neighborship list do
Compare(a, b) ==
    /\ cmp' = [done |-> TRUE, a |-> a, b |-> b,
               ab |-> operator_less(a, b), ba |-> operator_less(b, a),
               eq |-> operator_equal(a, b), qe |-> operator_equal(b, a)]
    /\ UNCHANGED <<dbVars, hood, edges>>

\* graph_collection_t::neighbors(vertex): the value gathered for the vertex
\* is parsed into a neighborhood_t
graph_collection_neighbors(vertex) ==
    /\ \E bytes \in GraphValues :
          hood' = [vertex |-> vertex, bytes |-> bytes] @@ neighborhood_t(vertex, bytes)
    /\ edges' = NoEdges
    /\ UNCHANGED <<dbVars, cmp>>

\* the caller takes outgoing_edges() and size() of its neighborhood
OutgoingEdges ==
    /\ hood.vertex # 0
    /\ edges' = outgoing_edges(hood)
    /\ UNCHANGED <<dbVars, cmp, hood>>

\* the caller takes incoming_edges() and size() of its neighborhood
IncomingEdges ==
    /\ hood.vertex # 0
    /\ edges' = incoming_edges(hood)
    /\ UNCHANGED <<dbVars, cmp, hood>>

NextGraph ==
    \/ \E a \in Neighborships, b \in Neighborships : Compare(a, b)
    \/ \E vertex \in Keys : graph_collection_neighbors(vertex)
    \/ OutgoingEdges
    \/ IncomingEdges

SpecGraph == Init /\ [][NextGraph]_vars

(***************************************************************************)
(* What a caller reads off the outputs of ukv_read.                        *)
(***************************************************************************)
RECURSIVE TapeOffset(_, _)
\* the bytes the first i values take on the tape; a missing value takes none
TapeOffset(lens, i) ==
    IF i = 0 THEN 0
    ELSE (IF lens[i] = ukv_val_len_missing_k THEN 0 ELSE lens[i])
         + TapeOffset(lens, i - 1)

\* the i-th result of a read call: missing, or the value of lens[i] bytes
\* cut from the tape
Returned(call, i) ==
    IF call.lens[i] = ukv_val_len_missing_k
    THEN [status |-> "NotFound", value |-> <<>>]
    ELSE [status |-> "OK",
          value |-> SubSeq(call.bytes, TapeOffset(call.lens, i - 1) + 1,
                           TapeOffset(call.lens, i))]

\* what a write task leaves under its key
Payload(task) ==
    IF task.del THEN [status |-> "NotFound", value |-> <<>>]
    ELSE [status |-> "OK", value |-> task.val]

(***************************************************************************)
(* Properties.                                                             *)
(***************************************************************************)
\* no transaction is open: every begun transaction has committed
Quiescent == \A t \in Txns : txnState[t] # "started"

\* the keys transaction t wrote with a call that returned a null error
Watched(t) == {s \in Slots : sent[t][s].kind # "none"}

\* C1: when only committed transactions wrote the database, the database
\* equals the replay of their logged operations, one transaction at a
\* time, in commit order.
SerializableReplay ==
    (Quiescent /\ ~rawWrites) => SnapshotOf(store) = replay

\* C2: a transaction whose commit succeeds has no watched key that another
\* transaction mutated and committed between its begin and its commit.  A
\* read without ukv_option_read_transparent_k is refused and reads nothing,
\* so the watched keys are the keys of the write calls that returned a null
\* error.
WatchDiscipline ==
    (last.op = "txn_commit" /\ last.err = "")
        => Watched(last.txn) \cap foreign[last.txn] = {}

\* C3: after another transaction committed a write of a key, a transaction
\* begun before that commit reads the key, passes it to ukv_write and
\* commits: it is the commit that returns the error.
ConflictAtCommit ==
    (last.op = "txn_commit" /\ rewritten[last.txn] # {}) => last.err # ""

\* C4: while a transaction holds a pending write of a key made with
\* ukv_option_transaction_dont_watch_k, another transaction's write of that
\* key is accepted (and it may commit first, the later commit deciding the
\* value).
DontWatchAdmitsWriters ==
    (last.op = "write" /\ last.txn # NullTxn
        /\ \E u \in Txns \ {last.txn} :
              /\ txnState[u] = "started"
              /\ SlotsOf(last.tasks) \subseteq unwatched[u])
        => last.err = ""

\* C5: a read inside a transaction of a key the transaction has not written
\* returns the value the key had at the transaction's snapshot.
SnapshotRead ==
    (last.op = "read" /\ last.txn # NullTxn /\ last.err = "")
        => \A i \in 1..Len(last.tasks) :
              SlotOf(last.tasks[i]) \notin BatchSlots(writeBatch[last.txn])
                 => Returned(last, i) = snapshot[last.txn][SlotOf(last.tasks[i])]

\* C6: a read inside a transaction of a key the transaction wrote returns
\* the value of its latest write of the key, missing after a deletion,
\* through the single-key and the batch path alike.
ReadOwnWrites ==
    (last.op = "read" /\ last.txn # NullTxn /\ last.err = "")
        => \A i \in 1..Len(last.tasks) :
              LET own == sent[last.txn][SlotOf(last.tasks[i])]
              IN  /\ own.kind = "put" =>
                        Returned(last, i) = [status |-> "OK", value |-> own.value]
                  /\ own.kind = "del" => Returned(last, i).status = "NotFound"

\* C7: the writes of an open transaction are buffered: the database, and so
\* every non-transactional read and every read of another transaction,
\* still shows for each key with a pending write what it showed before the
\* transaction wrote.
BufferedWrites ==
    \A t \in Txns :
        txnState[t] = "started" =>
            \A s \in BatchSlots(writeBatch[t]) :
                /\ Get(NullTxn, s) = snapshot[t][s]
                /\ \A u \in Txns \ {t} :
                      txnState[u] = "started" => Get(u, s) = snapshot[u][s]

\* the case of C7: an open transaction holds a pending write that differs
\* from the database, and another caller has just read that key
BufferedWritesCase ==
    \E t \in Txns :
        /\ txnState[t] = "started"
        /\ last.op = "read" /\ last.txn # t /\ last.err = ""
        /\ \E s \in BatchSlots(writeBatch[t]) \cap SlotsOf(last.tasks) :
              Get(t, s) # Get(NullTxn, s)

\* C8: a commit is atomic: in the one step of a successful commit every key
\* of the write-set takes the value of the transaction's last write of it
\* and no other key changes.  (What a SingleDelete record leaves is the
\* engine's matter.)
AtomicCommit ==
    [][\A t \in Txns :
          (txnState[t] = "started" /\ txnState'[t] = "committed" /\ last'.err = "")
            => \A s \in Slots :
                  LET rec == LastRecord(writeBatch[t], s, Len(writeBatch[t]))
                  IN  CASE rec.type = "None" -> store'[s] = store[s]
                        [] rec.type = "Put" ->
                              EngineGet(store'[s]) = [status |-> "OK", value |-> rec.value]
                        [] rec.type = "Delete" -> store'[s] = <<>>
                        [] OTHER -> TRUE]_vars

\* the case of C8: a commit has just applied writes of two keys
AtomicCommitCase ==
    /\ last.op = "txn_commit" /\ last.err = ""
    /\ Cardinality(BatchSlots(last.tasks)) > 1
    /\ \A s \in BatchSlots(last.tasks) :
          /\ LastRecord(last.tasks, s, Len(last.tasks)).type = "Put"
          /\ EngineGet(store[s]).value =
                LastRecord(last.tasks, s, Len(last.tasks)).value

\* C9: a non-transactional write of several tasks is atomic: with a null
\* error every task is applied, with an error the database is unchanged.
AtomicBatchWrite ==
    [][(calls' = calls + 1 /\ last'.op = "write" /\ last'.txn = NullTxn
          /\ Len(last'.tasks) > 1)
        => IF last'.err = ""
           THEN \A i \in 1..Len(last'.tasks) :
                   EngineGet(store'[SlotOf(last'.tasks[i])]) = Payload(last'.tasks[i])
           ELSE store' = store]_vars

\* the case of C9: a non-transactional batch has just failed on a locked
\* key while another of its keys was free
AtomicBatchWriteCase ==
    /\ last.op = "write" /\ last.txn = NullTxn /\ last.err # ""
    /\ Len(last.tasks) > 1
    /\ \E i \in 1..Len(last.tasks) : locks[SlotOf(last.tasks[i])] = NullTxn
    /\ \E i \in 1..Len(last.tasks) : locks[SlotOf(last.tasks[i])] # NullTxn

\* C10: a non-transactional read returns, for a key whose latest write is a
\* ukv_write of a value, exactly that value and its length, and for a key
\* never written the missing length; it returns no error.
WriteReadRoundTrip ==
    (last.op = "read" /\ last.txn = NullTxn)
        => /\ last.err = ""
           /\ \A i \in 1..Len(last.tasks) :
                 LET w == written[SlotOf(last.tasks[i])]
                 IN  /\ w.kind = "put" =>
                           Returned(last, i) = [status |-> "OK", value |-> w.value]
                     /\ w.kind = "never" =>
                           last.lens[i] = ukv_val_len_missing_k

\* the read task that addresses a (column family, key)
TaskOf(s) ==
    [col |-> IF s[1] = DefaultColumnFamily THEN ukv_default_collection_k ELSE s[1],
     key |-> s[2]]

\* C11: a read reports the missing length for the absent keys and for no
\* other: a key present with an empty value is reported with length 0, in a
\* single-key read and in every position of a batch read.
EmptyIsNotMissing ==
    (last.op = "read" /\ last.err = "")
        => \A i \in 1..Len(last.tasks) :
              LET got == Get(last.txn, SlotOf(last.tasks[i]))
              IN  /\ (last.lens[i] = ukv_val_len_missing_k) <=> (got.status = "NotFound")
                  /\ got.status = "OK" => last.lens[i] = Len(got.value)

\* C12: while the latest write of a key is a deletion, by a single task or
\* in a batch and after any number of writes of the key, a read of the key
\* reports it missing.
DeletedIsMissing ==
    \A s \in Slots :
        written[s].kind = "del"
            => read_one(NullTxn, <<TaskOf(s)>>).lens = <<ukv_val_len_missing_k>>

\* C13: a write call whose tasks address one collection leaves what every
\* reader sees in every other collection unchanged: a read and an iterator
\* of another collection return the same before and after the write, for
\* callers outside transactions and inside open ones.
CollectionIsolation ==
    [][\A s \in Slots :
          (/\ calls' = calls + 1
           /\ last'.op = "write"
           /\ \A i \in 1..Len(last'.tasks) : last'.tasks[i].col # TaskOf(s).col)
          => \A t \in Txns \cup {NullTxn} :
                (t # NullTxn => txnState[t] = "started")
                => /\ Get(t, s)' = Get(t, s)
                   /\ IteratorGet(t, s)' = IteratorGet(t, s)]_vars

\* a key holds different values in two collections after a write to the
\* named one
CollectionIsolationCase ==
    /\ last.op = "write"
    /\ last.err = ""
    /\ last.tasks[1].col # ukv_default_collection_k
    /\ \E k \in Keys :
          /\ EngineGet(store[<<DefaultColumnFamily, k>>]).status = "OK"
          /\ EngineGet(store[SlotOf([col |-> last.tasks[1].col, key |-> k])]).status = "OK"
          /\ EngineGet(store[<<DefaultColumnFamily, k>>])
               # EngineGet(store[SlotOf([col |-> last.tasks[1].col, key |-> k])])


\* C14: every successful commit returns a commit sequence number: the
\* sequence number is among the outputs of a ukv_txn_commit call that
\* returned no error.
CommitReturnsSequence ==
    (last.op = "txn_commit" /\ last.err = "") => "sequence_number" \in Outputs(last.op)

\* a step is the ukv_txn_commit call of transaction t
CommitStep(t) ==
    /\ txnState[t] = "started"
    /\ begins' = begins
    /\ calls' = calls
    /\ last'.op = "txn_commit"
    /\ last'.txn = t

RebeginStep(t) ==
    /\ txnState[t] = "started"
    /\ begins' = begins + 1
    /\ last'.op = "txn_begin"
    /\ last'.txn = t

\* C16: ukv_txn_begin on a handle that holds an open transaction discards
\* that transaction's buffered writes without applying any, leaves it no
\* key locked and no logged write, and gives the handle a snapshot of the
\* database as it is at this begin.
BeginResets ==
    [][\A t \in Txns :
          RebeginStep(t)
          => /\ store' = store
             /\ writeBatch'[t] = <<>>
             /\ \A s \in Slots : locks'[s] # t
             /\ snapSeq'[t] = seq
             /\ \A s \in Slots : snapshot'[t][s] = EngineGet(store[s])
             /\ \A s \in Slots : Get(t, s)' = EngineGet(store[s])]_vars

\* a transaction with buffered writes was begun again, after a write
\* that its old snapshot does not show
BeginResetsCase ==
    /\ last.op = "txn_begin"
    /\ last.tasks # <<>>
    /\ txnState[last.txn] = "started"
    /\ \E s \in Slots : store[s] # <<>>

\* C17: a freed transaction holds no lock and no buffered write: nothing
\* of it can make a write or a commit of another transaction fail or wait.
FreeAborts ==
    \A t \in freed :
       /\ writeBatch[t] = <<>>
       /\ \A s \in Slots : locks[s] # t

ExpectedScan(task) ==
    LET column == ColumnOf(task.col)
        present == {k \in Keys : /\ k >= task.min_key
                                 /\ EngineGet(store[<<column, k>>]).status = "OK"}
        all == Ascending(present)
    IN  [j \in 1..Min(task.length, Len(all)) |->
           [key |-> all[j], len |-> Len(EngineGet(store[<<column, all[j]>>]).value)]]

\* what a scan call returned for its task number i (from 0): the tape
\* entries written for that task, in tape order
ScanResult(i) ==
    LET own == SelectSeq(last.entries, LAMBDA e : e.task = i)
    IN  [j \in 1..Len(own) |-> [key |-> own[j].key, len |-> own[j].len]]

\* C19: a scan call outside a transaction that returns without error and
\* without running off its arrays has, for every one of its tasks, exactly
\* the first min(max_count, number of keys >= min_key) keys >= min_key of
\* the collection, each with the length of its stored value.
ScanReturnsRange ==
    (/\ last.op = "scan"
     /\ last.txn = NullTxn
     /\ last.err = ""
     /\ last.overrun = "none")
    => \A i \in 1..Len(last.tasks) : ScanResult(i - 1) = ExpectedScan(last.tasks[i])

\* C20: the keys a scan call returns for one task are in strictly
\* ascending order of their numeric value.
ScanAscending ==
    (/\ last.op = "scan"
     /\ last.err = ""
     /\ last.overrun = "none")
    => \A p \in 1..Len(last.entries), q \in 1..Len(last.entries) :
          (p < q /\ last.entries[p].task = last.entries[q].task)
          => last.entries[p].key < last.entries[q].key

\* C21: a scan inside a transaction that returns without error and without
\* running off its arrays returns only keys that the transaction reads at
\* its snapshot merged with its own pending writes, each with the length
\* of the value it reads there: what others committed after the snapshot
\* does not show.
ScanAtSnapshot ==
    (/\ last.op = "scan"
     /\ last.txn # NullTxn
     /\ last.err = ""
     /\ last.overrun = "none")
    => \A p \in 1..Len(last.entries) :
          LET e == last.entries[p]
              got == TxnGet(last.txn, <<ColumnOf(last.tasks[e.task + 1].col), e.key>>)
          IN  /\ got.status = "OK"
              /\ e.len = Len(got.value)

\* C26: a read of N keys that returns no error hands out a values pointer
\* 4 * N bytes after the lengths pointer, and walking the N lengths as a
\* prefix sum over the bytes at the values pointer gives back every key's
\* presence and value exactly; for N = 1 as for N > 1.
TapeLayout ==
    (last.op = "read" /\ last.err = "")
        => /\ last.offset = 4 * Len(last.tasks)
           /\ \A i \in 1..Len(last.tasks) :
                 Returned(last, i) = Get(last.txn, SlotOf(last.tasks[i]))

\* what a caller can observe of the result r of a write path: the error,
\* what the database holds, what the transaction's batch holds per key and
\* the keys it locked
Observed(r) ==
    [err |-> r.err,
     db |-> [s \in Slots |-> EngineGet(r.engine.store[s])],
     own |-> [s \in Slots |->
                LET rec == LastRecord(r.batch, s, Len(r.batch))
                IN  [kind |-> IF rec.type \in {"None", "Put"} THEN rec.type ELSE "Deleted",
                     value |-> rec.value]],
     locks |-> r.locks]

\* C27: in every state a task gives the same result through the singleton
\* path and through the batch path: the same error and the same state after
\* a write or a delete, outside and inside a transaction, and the same
\* presence and value for a read.
SingletonEqualsBatch ==
    \A t \in Txns \cup {NullTxn} :
       (t # NullTxn => txnState[t] = "started")
       => /\ \A tasks \in WriteTasks, resurface \in BOOLEAN :
                Len(tasks) = 1
                => Observed(write_one(t, tasks, resurface))
                      = Observed(write_many(t, tasks, resurface))
          /\ \A tasks \in ReadTasks :
                Len(tasks) = 1 => read_one(t, tasks).lens = read_many(t, tasks).lens

\* task i of a write call is the last one of the call for its key
LastForKey(tasks, i) ==
    \A j \in (i + 1)..Len(tasks) : SlotOf(tasks[j]) # SlotOf(tasks[i])

\* C28: a ukv_write call that returns a null error has taken its full
\* effect (inside a transaction every task is in the write batch and its key
\* is locked, outside every value put is in the database), and one that
\* returns an error has changed neither the database nor a write batch nor
\* a lock.
ErrorAtomicity ==
    [][(calls' = calls + 1 /\ last'.op = "write")
       => IF last'.err = ""
          THEN \A i \in 1..Len(last'.tasks) :
                  LET task == last'.tasks[i]
                      t == last'.txn
                  IN  LastForKey(last'.tasks, i)
                      => IF t # NullTxn
                         THEN LET rec == LastRecord(writeBatch'[t], SlotOf(task),
                                                    Len(writeBatch'[t]))
                              IN  /\ locks'[SlotOf(task)] = t
                                  /\ IF task.del
                                     THEN rec.type \in {"Delete", "SingleDelete"}
                                     ELSE rec.type = "Put" /\ rec.value = task.val
                         ELSE ~task.del => EngineGet(store'[SlotOf(task)]) = Payload(task)
          ELSE UNCHANGED <<engineVars, writeBatch, locks>>]_vars

OpenGetsOrCreates ==
    (/\ last.op = "collection_open"
     /\ last.name \notin {NullName, ""}
     /\ last.ub = "none")
    => /\ last.err = ""
       /\ last.col.set
       /\ \E i \in 1..Len(columns) :
             /\ columns[i].live
             /\ columns[i].family = last.col.handle
             /\ columns[i].family # 0
             /\ NameOf(columns[i].family) = last.name

\* a step is a ukv_collection_open or ukv_collection_remove call
CollectionStep(op) ==
    /\ calls' = calls + 1
    /\ last'.op = op

\* C23: ukv_collection_open with a null name and with an empty name return
\* a null error and a handle of the default column family, and create no
\* column family and no registry entry.
OpenDefault ==
    [][(CollectionStep("collection_open") /\ last'.name \in {NullName, ""})
       => /\ last'.err = ""
          /\ last'.col.set
          /\ ColumnOf(last'.col.handle) = DefaultColumnFamily
          /\ families' = families
          /\ columns' = columns]_vars

\* C24: ukv_collection_remove of the name of a column family that has a
\* live handle in the registry leaves no entry in that column family and no
\* handle of it in the registry.
RemoveDropsCollection ==
    [][\A c \in Columns \ {DefaultColumnFamily} :
          (/\ CollectionStep("collection_remove")
           /\ last'.name = NameOf(c)
           /\ \E i \in 1..Len(columns) : columns[i].family = c /\ columns[i].live)
          => /\ \A k \in Keys : store'[<<c, k>>] = <<>>
             /\ \A i \in 1..Len(columns') : columns'[i].family # c]_vars

\* C25: ukv_collection_remove with a null name returns a null error after a
\* defined execution and leaves the default column family without entries.
RemoveDefaultEmpties ==
    [][(CollectionStep("collection_remove") /\ last'.name = NullName)
       => /\ last'.err = ""
          /\ last'.ub = "none"
          /\ \A k \in Keys : store'[<<DefaultColumnFamily, k>>] = <<>>]_vars

\* C29: a read that is served returns an error exactly when the engine
\* failed: a failure of Get or MultiGet on a key is never reported as a
\* missing key, and a missing key is never an error.
ReadFailureIsError ==
    (last.op = "read" /\ ~Refused(last.txn, last.opt))
        => (getFails <=> last.err # "")

\* C37: operator< on neighborship_t is the lexicographic order on
\* (neighbor_id, edge_id) and a strict weak ordering: a < b holds exactly
\* when the neighbor id of a is smaller, or the neighbor ids are equal and
\* the edge id of a is smaller; never a < a; never a < b and b < a; and
\* a < b and b < c give a < c.
NeighborshipOrder ==
    cmp.done
    => /\ cmp.ab <=> (\/ cmp.a.neighbor_id < cmp.b.neighbor_id
                      \/ (/\ cmp.a.neighbor_id = cmp.b.neighbor_id
                          /\ cmp.a.edge_id < cmp.b.edge_id))
       /\ cmp.a = cmp.b => ~cmp.ab
       /\ ~(cmp.ab /\ cmp.ba)
       /\ \A c \in Neighborships :
             (cmp.ab /\ operator_less(cmp.b, c)) => operator_less(cmp.a, c)

\* C38: operator== on neighborship_t is an equivalence consistent with
\* operator<: a == a holds, a == b gives b == a, and a == b holds exactly
\* when both ids are equal, which is exactly when neither a < b nor b < a.
NeighborshipEquality ==
    cmp.done
    => /\ cmp.a = cmp.b => cmp.eq
       /\ cmp.eq => cmp.qe
       /\ cmp.eq <=> (/\ cmp.a.neighbor_id = cmp.b.neighbor_id
                      /\ cmp.a.edge_id = cmp.b.edge_id)
       /\ cmp.eq <=> (~cmp.ab /\ ~cmp.ba)

\* the degrees a value holds, none when it is shorter than the two degrees
DegreesOf(bytes) == IF Len(bytes) < 2 THEN <<0, 0>> ELSE <<bytes[1], bytes[2]>>

\* C39: of a neighborhood built from a vertex and its value, every
\* outgoing edge has the vertex as its source and every incoming edge has
\* it as its target; the targets are the first degrees[0] neighborships of
\* the value and the sources the degrees[1] that follow; size() is
\* degrees[0] + degrees[1].
NeighborhoodEdges ==
    LET d == DegreesOf(hood.bytes)
    IN  /\ edges.kind # "none" => edges.size = d[1] + d[2]
        /\ edges.kind = "outgoing"
           => /\ edges.source_ids = [i \in 1..d[1] |-> hood.vertex]
              /\ edges.target_ids = [i \in 1..d[1] |-> ShipAt(hood.bytes, i).neighbor_id]
              /\ edges.edge_ids = [i \in 1..d[1] |-> ShipAt(hood.bytes, i).edge_id]
        /\ edges.kind = "incoming"
           => /\ edges.target_ids = [i \in 1..d[2] |-> hood.vertex]
              /\ edges.source_ids =
                    [i \in 1..d[2] |-> ShipAt(hood.bytes, d[1] + i).neighbor_id]
              /\ edges.edge_ids =
                    [i \in 1..d[2] |-> ShipAt(hood.bytes, d[1] + i).edge_id]

\* C34: a scan call that is served reads its tasks 0, 1, ..., count - 1, each
\* once and in this order, then returns: the entries it stores do not change
\* which task is read next, and no task at or beyond the count is read.
ScanVisitsEachTask ==
    (last.op = "scan" /\ last.err = "")
    => /\ last.overrun # "tasks"
       /\ last.overrun = "none" => last.visited = [i \in 1..Len(last.tasks) |-> i - 1]

\* C35: a scan call that is served writes no entry beyond the tape it
\* allocated, also when a task's scan length exceeds the number of tasks.
ScanFitsTape ==
    (last.op = "scan" /\ last.err = "") => last.overrun # "tape"

\* C36: after a write call that returned a null error and whose tasks name
\* a key more than once, the key holds what the last of its tasks says, a
\* value or an absence: in the database for a call outside a transaction,
\* in what the transaction reads of its write-set for a call inside one.
LastTaskWins ==
    (/\ last.op = "write"
     /\ last.err = ""
     /\ \E i \in 1..Len(last.tasks) : ~LastForKey(last.tasks, i))
    => \A i \in 1..Len(last.tasks) :
          LastForKey(last.tasks, i)
          => IF last.txn = NullTxn
             THEN EngineGet(store[SlotOf(last.tasks[i])]) = Payload(last.tasks[i])
             ELSE TxnGet(last.txn, SlotOf(last.tasks[i])) = Payload(last.tasks[i])

\* C33: ukv_free and the ukv_open that follows it keep every committed
\* entry and every column family; after that ukv_open the registry holds a
\* live handle of the default column family and of every column family of
\* the database; and a ukv_collection_open of the name of a column family,
\* called on the database just opened, returns a null error and a handle of
\* that column family without creating one.
OpenRecovers ==
    [][/\ (last'.op = "free" \/ (last'.op = "open" /\ last.op = "free"))
          => /\ \A s \in Slots : EngineGet(store'[s]) = EngineGet(store[s])
             /\ families' = families
       /\ (last'.op = "open" /\ last.op = "free")
          => /\ columns'[1] = [family |-> DefaultColumnFamily, live |-> TRUE]
             /\ \A name \in families :
                   \E i \in 1..Len(columns') :
                      columns'[i].live /\ NameOf(columns'[i].family) = name
       /\ (/\ CollectionStep("collection_open")
           /\ last.op = "open"
           /\ last'.name \in families)
          => /\ last'.err = ""
             /\ last'.col.set
             /\ NameOf(last'.col.handle) = last'.name
             /\ families' = families
             /\ columns' = columns]_vars

\* a collection created before the database was freed was opened on the
\* database opened again, which holds a committed entry
OpenRecoversCase ==
    /\ last.op = "collection_open"
    /\ last.name = NameOf(MaxCol + 1)
    /\ last.err = ""
    /\ last.col = [set |-> TRUE, handle |-> MaxCol + 1]
    /\ \E s \in Slots : EngineGet(store[s]).status = "OK"

\* C31: a transaction that reads a key it has not written and then commits
\* has read the value of the serial order: the value, or the absence, the
\* key has in the replay of the transactions committed before it.
SerialReads ==
    [][\A t \in Txns :
          (/\ CommitStep(t)
           /\ last'.err = ""
           /\ ~rawWrites
           /\ last.op = "read" /\ last.txn = t /\ last.err = ""
           /\ Len(last.tasks) = 1)
          => \A i \in 1..Len(last.tasks) :
                sent[t][SlotOf(last.tasks[i])] = NoTask
                => Returned(last, i) = replay[SlotOf(last.tasks[i])]]_vars

\* C32: of transactions begun before any write was committed and committed
\* one after another, a commit returns a null error exactly when no key the
\* transaction wrote under the default options was written by a transaction
\* that committed before it; and when the last of them has committed, every
\* key is present exactly when the replay of the committed transactions, in
\* commit order, has it present.
CommitsInTurn ==
    [][\A t \in Txns :
          (CommitStep(t) /\ ~rawWrites /\ \A u \in Txns : snapSeq[u] = 0)
          => /\ last'.err = "" <=> (Watched(t) \ unwatched[t]) \cap foreign[t] = {}
             /\ (\A u \in Txns : txnState'[u] = "committed")
                => \A s \in Slots :
                      EngineGet(store'[s]).status = replay'[s].status]_vars

====
